---- MODULE Spec2Model ----
(***************************************************************************)
(* The camera session of static/script.js (the WebSocket revision, lines   *)
(* 329-730): openCamera, closeCamera, the socket handlers, the getUserMedia *)
(* promise chain, the video element's metadata/play events and the sampling *)
(* timer's callback captureFrameAndSend.                                    *)
(*                                                                         *)
(* Every openCamera() call gets a number 1, 2, ... ; the socket it creates, *)
(* the getUserMedia request it issues and the stream that request yields    *)
(* carry that number.  A handle (videoStream, socket, detectionInterval,    *)
(* video.srcObject) is 0 when it is null or undefined.  A timer carries the *)
(* number of the stream whose play() completion created it.                 *)
(*                                                                         *)
(* The page's elements are taken to exist (every getElementById and         *)
(* querySelector finds its element), and to start as the page shows them    *)
(* before any call: placeholder visible, camera container and canvas        *)
(* hidden.  The socket library is modelled at the events the handlers       *)
(* listen to: a connecting socket may connect, a connected one may drop.    *)
(***************************************************************************)
EXTENDS Integers, FiniteSets, Sequences

\* How many times openCamera() is called in a run.
MaxOpens == 2

\* video.HAVE_NOTHING, video.HAVE_METADATA, video.HAVE_ENOUGH_DATA
HAVE_NOTHING == 0
HAVE_METADATA == 1
HAVE_ENOUGH_DATA == 4

Sessions == 1..MaxOpens

VARIABLES
    videoStream,        \* let videoStream
    detectionInterval,  \* let detectionInterval
    cameraStarted,      \* let cameraStarted
    socket,             \* let socket
    sockState,          \* each socket io() made: none, connecting, connected, closed
    gum,                \* each getUserMedia promise: none, pending, resolved, rejected
    trackLive,          \* whether the tracks of each acquired stream are live
    videoSrc,           \* video.srcObject
    videoPhase,         \* the video element: empty, loading, playPending, playing, paused
    readyState,         \* video.readyState
    timers,             \* the intervals setInterval made that clearInterval has not cleared
    scanImage,          \* scanImage.style.display
    scanTitle,          \* scanTitle.style.display
    cameraContainer,    \* cameraContainer.style.display
    canvasDisplay,      \* canvas.style.display
    opens,              \* openCamera() calls so far
    closedUpTo,         \* the value of opens at the last closeCamera()
    afterClose,         \* the last of openCamera()/closeCamera() called was closeCamera()
    dropState,          \* "dropped": the connection dropped under an active timer;
                        \* "cancelled": the sampler then cancelled itself; "-" otherwise
    last                \* the handler that ran last and what it did

vars == <<videoStream, detectionInterval, cameraStarted, socket, sockState, gum,
          trackLive, videoSrc, videoPhase, readyState, timers, scanImage,
          scanTitle, cameraContainer, canvasDisplay, opens, closedUpTo,
          afterClose, dropState, last>>

\* What a handler did: its name, the session whose callback it is (0 for a
\* call from the page), the number of detect_video_frame messages it emitted,
\* whether it alerted, logged, or let an exception escape.  No handler of
\* the session throws: each dereference of a handle that may be null sits
\* behind a test of that handle (lines 422, 428, 481, 499, 721).
Did(op, sess, sent, alert, log) ==
    [op |-> op, sess |-> sess, sent |-> sent, alert |-> alert, log |-> log,
     threw |-> FALSE]

Init ==
    /\ videoStream = 0
    /\ detectionInterval = 0
    /\ cameraStarted = FALSE
    /\ socket = 0
    /\ sockState = [s \in Sessions |-> "none"]
    /\ gum = [s \in Sessions |-> "none"]
    /\ trackLive = [s \in Sessions |-> FALSE]
    /\ videoSrc = 0
    /\ videoPhase = "empty"
    /\ readyState = HAVE_NOTHING
    /\ timers = {}
    /\ scanImage = "block"
    /\ scanTitle = "block"
    /\ cameraContainer = "none"
    /\ canvasDisplay = "none"
    /\ opens = 0
    /\ closedUpTo = 0
    /\ afterClose = FALSE
    /\ dropState = "-"
    /\ last = Did("init", 0, 0, FALSE, FALSE)

\* socket && socket.connected
SocketConnected == socket # 0 /\ sockState[socket] = "connected"

\* clearInterval(id): a null or stale id clears nothing.
ClearInterval(id) == timers \ {id}

\* openCamera(): hide the placeholder, show the camera container, make the
\* socket and register its handlers, request the camera.
OpenCamera ==
    /\ opens < MaxOpens
    /\ opens' = opens + 1
    /\ scanImage' = "none"
    /\ scanTitle' = "none"
    /\ cameraContainer' = "block"
    /\ socket' = opens + 1
    /\ sockState' = [sockState EXCEPT ![opens + 1] = "connecting"]
    /\ gum' = [gum EXCEPT ![opens + 1] = "pending"]
    /\ afterClose' = FALSE
    /\ dropState' = "-"
    /\ last' = Did("open", 0, 0, FALSE, FALSE)
    /\ UNCHANGED <<videoStream, detectionInterval, cameraStarted, trackLive,
                   videoSrc, videoPhase, readyState, timers, canvasDisplay,
                   closedUpTo>>

\* socket.on('connect')
SocketConnect(s) ==
    /\ sockState[s] = "connecting"
    /\ sockState' = [sockState EXCEPT ![s] = "connected"]
    /\ cameraStarted' = TRUE
    /\ dropState' = IF dropState = "dropped" THEN "-" ELSE dropState
    /\ last' = Did("connect", s, 0, FALSE, TRUE)
    /\ UNCHANGED <<videoStream, detectionInterval, socket, gum, trackLive,
                   videoSrc, videoPhase, readyState, timers, scanImage,
                   scanTitle, cameraContainer, canvasDisplay, opens, closedUpTo,
                   afterClose>>

\* socket.on('disconnect'), the connection dropped by the server or the network
SocketDisconnect(s) ==
    /\ sockState[s] = "connected"
    /\ sockState' = [sockState EXCEPT ![s] = "closed"]
    /\ cameraStarted' = FALSE
    /\ dropState' = IF cameraStarted /\ timers # {} THEN "dropped" ELSE dropState
    /\ last' = Did("disconnect", s, 0, FALSE, TRUE)
    /\ UNCHANGED <<videoStream, detectionInterval, socket, gum, trackLive,
                   videoSrc, videoPhase, readyState, timers, scanImage,
                   scanTitle, cameraContainer, canvasDisplay, opens, closedUpTo,
                   afterClose>>

\* getUserMedia(...).then(stream => ...): the stream becomes videoStream and
\* the video's source; a new source restarts the element's loading (a play()
\* still pending on the old source is rejected, which is only logged).
GumResolve(s) ==
    /\ gum[s] = "pending"
    /\ gum' = [gum EXCEPT ![s] = "resolved"]
    /\ trackLive' = [trackLive EXCEPT ![s] = TRUE]
    /\ videoStream' = s
    /\ videoSrc' = s
    /\ videoPhase' = "loading"
    /\ readyState' = HAVE_NOTHING
    /\ last' = Did("gumResolve", s, 0, FALSE, videoPhase = "playPending")
    /\ UNCHANGED <<detectionInterval, cameraStarted, socket, sockState, timers,
                   scanImage, scanTitle, cameraContainer, canvasDisplay, opens,
                   closedUpTo, afterClose, dropState>>

\* GumReject without the restoring of the placeholder.
GumRejectNoRestore(s) ==
    /\ gum[s] = "pending"
    /\ gum' = [gum EXCEPT ![s] = "rejected"]
    /\ last' = Did("gumReject", s, 0, TRUE, TRUE)
    /\ UNCHANGED <<videoStream, detectionInterval, cameraStarted, socket,
                   sockState, trackLive, videoSrc, videoPhase, readyState,
                   timers, scanImage, scanTitle, cameraContainer,
                   canvasDisplay, opens, closedUpTo, afterClose, dropState>>

\* getUserMedia(...).catch(err => ...)
GumReject(s) ==
    /\ gum[s] = "pending"
    /\ gum' = [gum EXCEPT ![s] = "rejected"]
    /\ scanImage' = "block"
    /\ scanTitle' = "block"
    /\ last' = Did("gumReject", s, 0, TRUE, TRUE)
    /\ UNCHANGED <<videoStream, detectionInterval, cameraStarted, socket,
                   sockState, trackLive, videoSrc, videoPhase, readyState,
                   timers, cameraContainer, canvasDisplay, opens, closedUpTo,
                   afterClose, dropState>>

\* video.onloadedmetadata: calls video.play()
LoadedMetadata ==
    /\ videoPhase = "loading"
    /\ videoPhase' = "playPending"
    /\ readyState' = HAVE_METADATA
    /\ last' = Did("metadata", videoSrc, 0, FALSE, FALSE)
    /\ UNCHANGED <<videoStream, detectionInterval, cameraStarted, socket,
                   sockState, gum, trackLive, videoSrc, timers, scanImage,
                   scanTitle, cameraContainer, canvasDisplay, opens, closedUpTo,
                   afterClose, dropState>>

\* StartRealTimeDetection without the clearing of the interval in use.
StartRealTimeDetectionNoClear(id) ==
    /\ timers' = timers \cup {id}
    /\ detectionInterval' = id

\* startRealTimeDetection() called for the stream that plays: clear the
\* interval detectionInterval names, if any, and set a new one.
StartRealTimeDetection(id) ==
    /\ timers' = (IF detectionInterval # 0 THEN ClearInterval(detectionInterval)
                  ELSE timers) \cup {id}
    /\ detectionInterval' = id

\* video.play().then(...): size and show the canvas, start the sampler.
PlayResolve ==
    /\ videoPhase = "playPending"
    /\ videoPhase' = "playing"
    /\ canvasDisplay' = "block"
    /\ StartRealTimeDetection(videoSrc)
    /\ last' = Did("playResolve", videoSrc, 0, FALSE, FALSE)
    /\ UNCHANGED <<videoStream, cameraStarted, socket, sockState, gum,
                   trackLive, videoSrc, readyState, scanImage, scanTitle,
                   cameraContainer, opens, closedUpTo, afterClose,
                   dropState>>

\* video.play().catch(...): logged
PlayReject ==
    /\ videoPhase = "playPending"
    /\ videoPhase' = "paused"
    /\ last' = Did("playReject", videoSrc, 0, FALSE, TRUE)
    /\ UNCHANGED <<videoStream, detectionInterval, cameraStarted, socket,
                   sockState, gum, trackLive, videoSrc, readyState, timers,
                   scanImage, scanTitle, cameraContainer, canvasDisplay, opens,
                   closedUpTo, afterClose, dropState>>

\* The video element buffers data, or runs out of it.
VideoData ==
    /\ videoPhase \in {"playPending", "playing", "paused"}
    /\ readyState' = IF readyState = HAVE_ENOUGH_DATA THEN HAVE_METADATA
                     ELSE HAVE_ENOUGH_DATA
    /\ last' = Did("videoData", videoSrc, 0, FALSE, FALSE)
    /\ UNCHANGED <<videoStream, detectionInterval, cameraStarted, socket,
                   sockState, gum, trackLive, videoSrc, videoPhase, timers,
                   scanImage, scanTitle, cameraContainer, canvasDisplay, opens,
                   closedUpTo, afterClose, dropState>>

\* SendCondition without the cameraStarted test.
SendConditionNoStarted ==
    readyState = HAVE_ENOUGH_DATA /\ SocketConnected

\* The condition under which captureFrameAndSend sends a frame.
SendCondition ==
    readyState = HAVE_ENOUGH_DATA /\ SocketConnected /\ cameraStarted

\* CancelCondition without the cameraStarted test.
CancelConditionAlways == detectionInterval # 0

\* The condition under which captureFrameAndSend, not sending, cancels the
\* interval.
CancelCondition == ~cameraStarted /\ detectionInterval # 0

\* captureFrameAndSend(), run by a tick of interval t.
CaptureFrameAndSend(t) ==
    /\ t \in timers
    /\ IF SendCondition
       THEN /\ last' = Did("tick", t, 1, FALSE, FALSE)
            /\ UNCHANGED <<timers, detectionInterval, dropState>>
       ELSE IF CancelCondition
       THEN /\ timers' = ClearInterval(detectionInterval)
            /\ detectionInterval' = 0
            /\ dropState' = IF dropState = "dropped" THEN "cancelled" ELSE dropState
            /\ last' = Did("tick", t, 0, FALSE, TRUE)
       ELSE /\ last' = Did("tick", t, 0, FALSE, FALSE)
            /\ UNCHANGED <<timers, detectionInterval, dropState>>
    /\ UNCHANGED <<videoStream, cameraStarted, socket, sockState, gum,
                   trackLive, videoSrc, videoPhase, readyState, scanImage,
                   scanTitle, cameraContainer, canvasDisplay, opens, closedUpTo,
                   afterClose>>

\* closeCamera()
CloseCamera ==
    /\ scanImage' = "block"
    /\ scanTitle' = "block"
    /\ IF videoStream # 0
       THEN /\ trackLive' = [trackLive EXCEPT ![videoStream] = FALSE]
            /\ videoSrc' = 0
            /\ videoPhase' = "empty"
            /\ readyState' = HAVE_NOTHING
            /\ videoStream' = 0
       ELSE UNCHANGED <<trackLive, videoSrc, videoPhase, readyState,
                        videoStream>>
    /\ IF SocketConnected
       THEN /\ sockState' = [sockState EXCEPT ![socket] = "closed"]
            /\ socket' = 0
       ELSE UNCHANGED <<sockState, socket>>
    /\ cameraContainer' = "none"
    /\ canvasDisplay' = "none"
    /\ timers' = ClearInterval(detectionInterval)
    /\ detectionInterval' = 0
    /\ cameraStarted' = FALSE
    /\ closedUpTo' = opens
    /\ afterClose' = TRUE
    /\ last' = Did("close", 0, 0, FALSE,
                   SocketConnected \/ (videoStream # 0 /\ videoPhase = "playPending"))
    /\ UNCHANGED <<gum, opens, dropState>>

----------------------------------------------------------------------------
(***************************************************************************)
(* The Result Renderer: the overlay canvas, drawDetections and the          *)
(* detection_results handler.                                               *)
(*                                                                         *)
(* Lengths are counted in 1/RelDen of a pixel, so that a relative           *)
(* coordinate n/RelDen times a canvas size is exact; Px(n) is n pixels.     *)
(* A score is counted in 1/10000: LabelThreshold is the 0.1 of line 540.    *)
(* The canvas is the list of what was drawn on it since it was last         *)
(* cleared.                                                                 *)
(***************************************************************************)

\* Relative coordinates are the multiples of 1/RelDen in [0,1].
RelDen == 2
\* Canvas widths and heights before the canvas is resized: 1..MaxDim pixels.
MaxDim == 2
\* Absolute boxes reach up to MaxAbs pixels.
MaxAbs == 2
\* Detections in one result.
MaxDets == 2

\* The 0.1 of `detection.score > 0.1`, in 1/10000.
LabelThreshold == 1000
\* The 5 of `y1 - 5`, in pixels.
LabelLift == 5

VARIABLES
    canvasW,            \* canvas.width
    canvasH,            \* canvas.height
    overlay,            \* what the canvas shows: the draw calls since the last clear
    inbox,              \* the detection_results messages still to be delivered
    shown,              \* the message handled last
    prev,               \* the canvas size, message and content before the last resize
    dlast               \* the renderer step that ran last

drawVars == <<canvasW, canvasH, overlay, inbox, shown, prev, dlast>>

Px(n) == n * RelDen

Scores == {LabelThreshold, LabelThreshold + 1}

\* box_relative with its four entries
RelBoxes == {<<a, a, RelDen, RelDen>> : a \in 0..(RelDen - 1)}

\* box (absolute pixels)
AbsBoxes == {<<0, 0, c, c>> : c \in 1..MaxAbs}

\* A detection of a message: label, score, box, and box_relative when hasRel
\* (with four entries, or, malformed, with three).
Detections ==
    [label : {"Ripe"}, score : Scores, hasRel : {TRUE}, rel : RelBoxes,
     box : {<<0, 0, 1, 1>>}]
    \cup [label : {"Ripe"}, score : Scores, hasRel : {FALSE}, rel : {<<>>},
          box : AbsBoxes]
    \cup [label : {"Ripe"}, score : {LabelThreshold + 1}, hasRel : {TRUE},
          rel : {<<0, 0, RelDen>>}, box : {<<0, 0, 1, 1>>}]

DetLists ==
    UNION {[1..n -> Detections] : n \in 0..MaxDets}

\* A detection_results payload: data.detections is a list, or is missing.
Results ==
    [hasList : {TRUE}, detections : DetLists]
    \cup {[hasList |-> FALSE, detections |-> <<>>]}

\* A message that carries zero detections.
ZeroResults == {r \in Results : r.detections = <<>>}

NoResult == [hasList |-> FALSE, detections |-> <<>>]

DrawOp(kind, src, x, y, w, h, label, pct) ==
    [kind |-> kind, src |-> src, x |-> x, y |-> y, w |-> w, h |-> h,
     label |-> label, pct |-> pct]

\* ctx.clearRect(0, 0, canvas.width, canvas.height);
\* ctx.drawImage(video, 0, 0, canvas.width, canvas.height)
BareFrame(W, H) == <<DrawOp("frame", "video", 0, 0, Px(W), Px(H), "", 0)>>

\* (score * 100).toFixed(1), in tenths of a percent
Percent(score) == (score + 5) \div 10

\* RelRect with the canvas width used for both axes.
RelRectWidthOnly(r, W, H) ==
    [x1 |-> r[1] * W, y1 |-> r[2] * W, x2 |-> r[3] * W, y2 |-> r[4] * W]

\* RelRect with the relative coordinates scaled by a fixed frame size.
RelRectFixedFrame(r, W, H) ==
    [x1 |-> r[1], y1 |-> r[2], x2 |-> r[3], y2 |-> r[4]]

\* rel_x1 * canvas.width, rel_y1 * canvas.height, rel_x2 * canvas.width,
\* rel_y2 * canvas.height
RelRect(r, W, H) ==
    [x1 |-> r[1] * W, y1 |-> r[2] * H, x2 |-> r[3] * W, y2 |-> r[4] * H]

\* detection.box_relative && detection.box_relative.length === 4
UsesRelative(d) == d.hasRel /\ Len(d.rel) = 4

\* What drawDetections draws for one detection.
DrawDetection(d, W, H) ==
    IF UsesRelative(d)
    THEN LET c == RelRect(d.rel, W, H)
             box == DrawOp("rect", "relative", c.x1, c.y1, c.x2 - c.x1,
                           c.y2 - c.y1, "", 0)
         IN  IF d.score > LabelThreshold
             THEN <<box, DrawOp("text", "relative", c.x1,
                                c.y1 - Px(LabelLift), 0, 0, d.label,
                                Percent(d.score))>>
             ELSE <<box>>
    ELSE <<DrawOp("rect", "absolute", Px(d.box[1]), Px(d.box[2]),
                  Px(d.box[3]) - Px(d.box[1]), Px(d.box[4]) - Px(d.box[2]),
                  "", 0)>>

RECURSIVE DrawEach(_, _, _)
DrawEach(ds, W, H) ==
    IF ds = <<>> THEN <<>>
    ELSE DrawDetection(Head(ds), W, H) \o DrawEach(Tail(ds), W, H)

\* drawDetections(result)
DrawDetections(result, W, H) ==
    BareFrame(W, H) \o
        (IF result.hasList THEN DrawEach(result.detections, W, H) ELSE <<>>)

HasBoxes(canvas) == \E i \in 1..Len(canvas) : canvas[i].kind = "rect"

NoPrev == [w |-> 0, h |-> 0, result |-> NoResult, overlay |-> <<>>]

\* The canvas has a size and is blank; one message is to come, or one
\* followed by a message with zero detections, or the same one twice.
DrawInit ==
    /\ canvasW \in 1..MaxDim
    /\ canvasH \in 1..MaxDim
    /\ overlay = <<>>
    /\ \E r \in Results :
          inbox \in {<<r>>, <<r, r>>} \cup {<<r, z>> : z \in ZeroResults}
    /\ shown = NoResult
    /\ prev = NoPrev
    /\ dlast = [op |-> "init", zero |-> FALSE, hadBoxes |-> FALSE]

\* The handler with nothing done for a message of zero detections.
DetectionResultsSkipsEmpty ==
    /\ inbox # <<>>
    /\ LET data == Head(inbox)
           some == data.hasList /\ Len(data.detections) > 0
       IN  /\ overlay' = IF some
                         THEN DrawDetections(data, canvasW, canvasH)
                         ELSE overlay
           /\ shown' = data
           /\ dlast' = [op |-> "results", zero |-> ~some,
                        hadBoxes |-> HasBoxes(overlay)]
    /\ inbox' = Tail(inbox)
    /\ UNCHANGED <<canvasW, canvasH, prev>>

\* socket.on('detection_results', (data) => ...)
DetectionResults ==
    /\ inbox # <<>>
    /\ LET data == Head(inbox)
           some == data.hasList /\ Len(data.detections) > 0
       IN  /\ overlay' = IF some
                         THEN DrawDetections(data, canvasW, canvasH)
                         ELSE BareFrame(canvasW, canvasH)
           /\ shown' = data
           /\ dlast' = [op |-> "results", zero |-> ~some,
                        hadBoxes |-> HasBoxes(overlay)]
    /\ inbox' = Tail(inbox)
    /\ UNCHANGED <<canvasW, canvasH, prev>>

\* canvas.width = video.videoWidth; canvas.height = video.videoHeight, for a
\* video twice as wide and high as the canvas was: a canvas that is given a
\* size is cleared.
SizeCanvas ==
    /\ prev = NoPrev
    /\ shown # NoResult
    /\ prev' = [w |-> canvasW, h |-> canvasH, result |-> shown,
                overlay |-> overlay]
    /\ canvasW' = 2 * canvasW
    /\ canvasH' = 2 * canvasH
    /\ overlay' = <<>>
    /\ dlast' = [op |-> "size", zero |-> FALSE, hadBoxes |-> HasBoxes(overlay)]
    /\ UNCHANGED <<inbox, shown>>

----------------------------------------------------------------------------
(***************************************************************************)
(* The Static-Image Pipeline: the change handler of the file input          *)
(* (lines 555-718), its image load/error callbacks and closeUpload.  Every  *)
(* image the user picks starts an upload 1, 2, ... with its own object URL, *)
(* image element and request; what is on the preview canvas is kept as      *)
(* blank, cleared, image or boxes.                                          *)
(***************************************************************************)

\* Image files picked in a run.
MaxUploads == 2

Uploads == 1..MaxUploads

VARIABLES
    inputValue,         \* imageUpload.value: the picked file's name, or ""
    uploadPreview,      \* uploadPreviewContainer.style.display
    uploadCanvas,       \* the preview canvas: blank, cleared, image, boxes
    upPc,               \* each upload: none, loading, fetching, done, failed
    urlState,           \* each upload's object URL: none, live, revoked
    revokes,            \* URL.revokeObjectURL calls on each upload's URL
    requests,           \* the uploads whose /detect_frame request was sent
    drew,               \* what each upload drew on the canvas: nothing, image, boxes
    nUploads,           \* uploads started so far
    ulast               \* the upload step that ran last

upVars == <<inputValue, uploadPreview, uploadCanvas, upPc, urlState, revokes,
            requests, drew, nUploads, ulast>>

\* The files the user can pick: name and MIME type (type, subtype).
Files ==
    {[name |-> "a.png", type |-> <<"image", "png">>],
     [name |-> "b.jpg", type |-> <<"image", "jpeg">>],
     [name |-> "notes.txt", type |-> <<"text", "plain">>]}

NoFile == [name |-> "", type |-> <<"", "">>]

\* How a /detect_frame request ends: 2xx with no detection, with boxes, or
\* with a detection that has neither box_relative nor box; a non-2xx reply;
\* a network error; a reply that is not JSON.
Outcomes ==
    {"okNone", "okBoxes", "okMalformed", "non2xx", "transportError",
     "unparsable"}

UpDid(op, u, file, outcome, alert) ==
    [op |-> op, u |-> u, file |-> file, outcome |-> outcome, alert |-> alert]

UploadInit ==
    /\ inputValue = ""
    /\ uploadPreview = "none"
    /\ uploadCanvas = "blank"
    /\ upPc = [u \in Uploads |-> "none"]
    /\ urlState = [u \in Uploads |-> "none"]
    /\ revokes = [u \in Uploads |-> 0]
    /\ requests = {}
    /\ drew = [u \in Uploads |-> "nothing"]
    /\ nUploads = 0
    /\ ulast = UpDid("init", 0, NoFile, "", FALSE)

\* IsImage that lets every file through.
IsImageAlways(f) == TRUE

\* file.type.startsWith('image/')
IsImage(f) == f.type[1] = "image"

\* The change event of the file input: the user picked file f (a change
\* event fires only when the input's value changes).
UploadChange(f) ==
    /\ f.name # inputValue
    /\ inputValue' = f.name
    /\ IF ~IsImage(f)
       THEN /\ ulast' = UpDid("change", 0, f, "", TRUE)
            /\ UNCHANGED <<uploadPreview, uploadCanvas, upPc, urlState,
                           revokes, requests, drew, nUploads>>
       ELSE /\ nUploads < MaxUploads
            /\ nUploads' = nUploads + 1
            /\ uploadCanvas' = "cleared"
            /\ uploadPreview' = "block"
            /\ urlState' = [urlState EXCEPT ![nUploads + 1] = "live"]
            /\ upPc' = [upPc EXCEPT ![nUploads + 1] = "loading"]
            /\ ulast' = UpDid("change", nUploads + 1, f, "", FALSE)
            /\ UNCHANGED <<revokes, requests, drew>>

\* closeUpload()
CloseUploadEffect ==
    /\ uploadPreview' = "none"
    /\ inputValue' = ""

\* cleanup(): revoke the upload's object URL, drop the image's handlers
Cleanup(u) ==
    /\ urlState' = [urlState EXCEPT ![u] = "revoked"]
    /\ revokes' = [revokes EXCEPT ![u] = @ + 1]

\* The user closes the preview: closeUpload()
CloseUpload ==
    /\ CloseUploadEffect
    /\ ulast' = UpDid("close", 0, NoFile, "", FALSE)
    /\ UNCHANGED <<uploadCanvas, upPc, urlState, revokes, requests, drew,
                   nUploads>>

\* img.onerror: the file does not decode
ImageError(u) ==
    /\ upPc[u] = "loading"
    /\ upPc' = [upPc EXCEPT ![u] = "failed"]
    /\ CloseUploadEffect
    /\ Cleanup(u)
    /\ ulast' = UpDid("imageError", u, NoFile, "", TRUE)
    /\ UNCHANGED <<uploadCanvas, requests, drew, nUploads>>

\* img.onload, up to the await of fetch('/detect_frame')
ImageLoad(u) ==
    /\ upPc[u] = "loading"
    /\ upPc' = [upPc EXCEPT ![u] = "fetching"]
    /\ requests' = requests \cup {u}
    /\ ulast' = UpDid("imageLoad", u, NoFile, "", FALSE)
    /\ UNCHANGED <<inputValue, uploadPreview, uploadCanvas, urlState, revokes,
                   drew, nUploads>>

\* RequestThrows that does not look at response.ok.
RequestThrowsIgnoresStatus(outcome) ==
    outcome \in {"transportError", "unparsable"}

\* fetch rejects, response.json() rejects, or !response.ok throws
RequestThrows(outcome) ==
    outcome \in {"transportError", "unparsable", "non2xx"}

\* What the success path has drawn when it ends or throws: the image, and
\* the boxes when result.detections has boxes.  A non-2xx reply that is let
\* through carries {error} and no detections.
Drawn(outcome) == IF outcome = "okBoxes" THEN "boxes" ELSE "image"

\* The catch block of img.onload: alert, closeUpload(), cleanup()
DetectionFailed(u, outcome) ==
    /\ CloseUploadEffect
    /\ Cleanup(u)
    /\ upPc' = [upPc EXCEPT ![u] = "failed"]
    /\ ulast' = UpDid("fetchDone", u, NoFile, outcome, TRUE)

\* The end of the try block of img.onload without cleanup().
DetectionDoneNoCleanup(u, outcome) ==
    /\ upPc' = [upPc EXCEPT ![u] = "done"]
    /\ ulast' = UpDid("fetchDone", u, NoFile, outcome, FALSE)
    /\ UNCHANGED <<inputValue, uploadPreview, urlState, revokes>>

\* The end of the try block of img.onload: cleanup()
DetectionDone(u, outcome) ==
    /\ Cleanup(u)
    /\ upPc' = [upPc EXCEPT ![u] = "done"]
    /\ ulast' = UpDid("fetchDone", u, NoFile, outcome, FALSE)
    /\ UNCHANGED <<inputValue, uploadPreview>>

\* img.onload from the answer of fetch on
FetchDone(u, outcome) ==
    /\ upPc[u] = "fetching"
    /\ IF RequestThrows(outcome)
       THEN /\ DetectionFailed(u, outcome)
            /\ UNCHANGED <<uploadCanvas, drew>>
       ELSE /\ uploadCanvas' = Drawn(outcome)
            /\ drew' = [drew EXCEPT ![u] = Drawn(outcome)]
            /\ IF outcome = "okMalformed"
               THEN DetectionFailed(u, outcome)
               ELSE DetectionDone(u, outcome)
    /\ UNCHANGED <<requests, nUploads>>

----------------------------------------------------------------------------
(***************************************************************************)
(* The order of the side effects of openCamera() and closeCamera(): the    *)
(* statements of the last of the two that ran, in the order the function   *)
(* runs them.                                                               *)
(***************************************************************************)

VARIABLE
    effects             \* the side effects of the last openCamera()/closeCamera()

\* openCamera(), lines 342-378, in statement order.
OpenCameraEffects ==
    <<"scanImage.none", "scanTitle.none", "cameraContainer.block", "io",
      "getUserMedia">>

\* closeCamera(), lines 419-439, in statement order.
CloseCameraEffects ==
    <<"scanImage.block", "scanTitle.block">>
    \o (IF videoStream # 0
        THEN <<"tracks.stop", "srcObject.null", "videoStream.null">>
        ELSE <<>>)
    \o (IF SocketConnected THEN <<"socket.disconnect", "socket.null">> ELSE <<>>)
    \o <<"cameraContainer.none", "canvas.none", "clearInterval",
         "detectionInterval.null", "cameraStarted.false">>

OrderInit == effects = <<>>

OpenCameraInOrder == OpenCamera /\ effects' = OpenCameraEffects

CloseCameraInOrder == CloseCamera /\ effects' = CloseCameraEffects

----------------------------------------------------------------------------
(***************************************************************************)
(* The request/response sampler of the first revision (lines 1-328):       *)
(* captureFrame posts each frame to /detect_frame, draws the reply and      *)
(* posts the first detection to /save_assessment.  The canvas is one pixel  *)
(* wide and high.  The upload handler of that revision posts the picked     *)
(* file the same way; of its preview only the container's visibility is     *)
(* kept here (the canvas and the object URL are those of lines 555-718).    *)
(***************************************************************************)

\* Frames the sampler captures and files the user picks in a run: each is
\* one /detect_frame request.
MaxFrames == 2

Frames == 1..MaxFrames

VARIABLES
    legacyInterval,     \* the interval of startRealTimeDetection is active
    legacyCanvas,       \* what was drawn on the canvas since it was last cleared
    framePc,            \* each request: none, encoding (frame), loading (file),
                        \* detecting, saving, done
    nFrames,            \* frames captured and files picked so far
    reqSource,          \* each request: "camera" for a frame, "upload" for a file
    saves,              \* the /save_assessment requests sent for each reply
    legacyPreview,      \* uploadPreviewContainer.style.display
    saveFailed,         \* a /save_assessment call has failed
    llast               \* the step of the sampler that ran last

legacyVars == <<legacyInterval, legacyCanvas, framePc, nFrames, reqSource,
                saves, legacyPreview, saveFailed, llast>>

\* detection of a /detect_frame reply: label, score, box
LegacyDetections ==
    [label : {"Ripe", "Rotten"}, score : {LabelThreshold + 1},
     box : {<<0, 0, 1, 1>>}]

\* A /detect_frame reply body: result.detections is missing, empty, or holds
\* one detection or two of different labels.
LegacyResults ==
    {[hasList |-> FALSE, detections |-> <<>>],
     [hasList |-> TRUE, detections |-> <<>>]}
    \cup {[hasList |-> TRUE, detections |-> <<d>>] : d \in LegacyDetections}
    \cup {[hasList |-> TRUE, detections |-> <<p[1], p[2]>>] :
             p \in {q \in LegacyDetections \X LegacyDetections : q[1] # q[2]}}

\* No /save_assessment request.
NoPayload == [label |-> "", score |-> 0, source |-> ""]

\* How a /detect_frame request ends.
DetectOutcomes == {"ok", "non2xx", "transportError", "unparsable"}

\* How a /save_assessment request ends: 2xx; non-2xx; non-2xx whose body
\* cannot be read; a network error.
SaveOutcomes == {"ok", "non2xx", "non2xxUnreadable", "transportError"}

LegacyDid(op, frame, outcome, result, log, raised) ==
    [op |-> op, frame |-> frame, outcome |-> outcome, result |-> result,
     log |-> log, raised |-> raised, payload |-> NoPayload]

LegacyInit ==
    /\ legacyInterval = FALSE
    /\ legacyCanvas = <<>>
    /\ framePc = [c \in Frames |-> "none"]
    /\ nFrames = 0
    /\ reqSource = [c \in Frames |-> ""]
    /\ saves = [c \in Frames |-> 0]
    /\ legacyPreview = "none"
    /\ saveFailed = FALSE
    /\ llast = [op |-> "init", frame |-> 0, outcome |-> "", result |-> NoResult,
                log |-> "", raised |-> FALSE, payload |-> NoPayload]

\* ctx.drawImage(video, 0, 0, canvas.width, canvas.height)
VideoFrame == DrawOp("frame", "video", 0, 0, Px(1), Px(1), "", 0)

\* What the forEach of drawDetections draws for one detection: the box and,
\* always, its label.
LegacyDrawDetection(d) ==
    <<DrawOp("rect", "absolute", Px(d.box[1]), Px(d.box[2]),
             Px(d.box[3]) - Px(d.box[1]), Px(d.box[4]) - Px(d.box[2]), "", 0),
      DrawOp("text", "absolute", Px(d.box[1]), Px(d.box[2]) - Px(LabelLift),
             0, 0, d.label, Percent(d.score))>>

RECURSIVE LegacyDrawEach(_)
LegacyDrawEach(ds) ==
    IF ds = <<>> THEN <<>>
    ELSE LegacyDrawDetection(Head(ds)) \o LegacyDrawEach(Tail(ds))

\* drawDetections(result)
LegacyDrawDetections(result) ==
    <<VideoFrame>> \o
        (IF result.hasList THEN LegacyDrawEach(result.detections) ELSE <<>>)

\* startRealTimeDetection()
LegacyStartRealTimeDetection ==
    /\ ~legacyInterval
    /\ legacyInterval' = TRUE
    /\ llast' = LegacyDid("start", 0, "", NoResult, "", FALSE)
    /\ UNCHANGED <<legacyCanvas, framePc, nFrames, reqSource, saves,
                   legacyPreview, saveFailed>>

\* closeCamera(): clearInterval(detectionInterval)
LegacyCloseCamera ==
    /\ legacyInterval' = FALSE
    /\ llast' = LegacyDid("close", 0, "", NoResult, "", FALSE)
    /\ UNCHANGED <<legacyCanvas, framePc, nFrames, reqSource, saves,
                   legacyPreview, saveFailed>>

\* captureFrame(), a tick of the interval: with enough video data the frame
\* is drawn over the canvas and handed to canvas.toBlob.
CaptureFrame(enoughData) ==
    /\ legacyInterval
    /\ nFrames < MaxFrames
    /\ IF enoughData
       THEN /\ legacyCanvas' = Append(legacyCanvas, VideoFrame)
            /\ nFrames' = nFrames + 1
            /\ framePc' = [framePc EXCEPT ![nFrames + 1] = "encoding"]
            /\ reqSource' = [reqSource EXCEPT ![nFrames + 1] = "camera"]
            /\ llast' = LegacyDid("tick", nFrames + 1, "", NoResult, "", FALSE)
       ELSE /\ llast' = LegacyDid("tick", 0, "", NoResult, "", FALSE)
            /\ UNCHANGED <<legacyCanvas, nFrames, framePc, reqSource>>
    /\ UNCHANGED <<legacyInterval, saves, legacyPreview, saveFailed>>

\* The toBlob callback up to its fetch('/detect_frame').
ToBlobDone(c) ==
    /\ framePc[c] = "encoding"
    /\ framePc' = [framePc EXCEPT ![c] = "detecting"]
    /\ llast' = LegacyDid("blob", c, "", NoResult, "", FALSE)
    /\ UNCHANGED <<legacyInterval, legacyCanvas, nFrames, reqSource, saves,
                   legacyPreview, saveFailed>>

\* response.ok && result.detections && result.detections.length > 0
Renders(outcome, result) ==
    outcome = "ok" /\ result.hasList /\ result.detections # <<>>

\* SavePayload with the last detection of the result.
SavePayloadOfLast(result, source) ==
    [label |-> result.detections[Len(result.detections)].label,
     score |-> result.detections[Len(result.detections)].score,
     source |-> source]

\* The fields saveAssessment(blob, result.detections[0], source) posts.
SavePayload(result, source) ==
    [label |-> result.detections[1].label,
     score |-> result.detections[1].score,
     source |-> source]

\* The toBlob callback from the reply of /detect_frame to the call of
\* saveAssessment, which sends its request.
DetectFrameDone(c, outcome, result) ==
    /\ framePc[c] = "detecting"
    /\ reqSource[c] = "camera"
    /\ IF Renders(outcome, result)
       THEN /\ legacyCanvas' = LegacyDrawDetections(result)
            /\ saves' = [saves EXCEPT ![c] = @ + 1]
            /\ framePc' = [framePc EXCEPT ![c] = "saving"]
            /\ llast' = [LegacyDid("detect", c, outcome, result, "", FALSE)
                            EXCEPT !.payload = SavePayload(result, "camera")]
       ELSE /\ framePc' = [framePc EXCEPT ![c] = "done"]
            /\ llast' = LegacyDid("detect", c, outcome, NoResult,
                                  IF outcome \in {"transportError", "unparsable"}
                                  THEN "Error sending frame"
                                  ELSE "Detection failed", FALSE)
            /\ UNCHANGED <<legacyCanvas, saves>>
    /\ UNCHANGED <<legacyInterval, nFrames, reqSource, legacyPreview,
                   saveFailed>>

\* The change handler of the file input: a file that is not an image is
\* refused with an alert; an image shows the preview and starts to load.
LegacyUploadChange(f) ==
    /\ nFrames < MaxFrames
    /\ IF IsImage(f)
       THEN /\ legacyPreview' = "block"
            /\ nFrames' = nFrames + 1
            /\ framePc' = [framePc EXCEPT ![nFrames + 1] = "loading"]
            /\ reqSource' = [reqSource EXCEPT ![nFrames + 1] = "upload"]
            /\ llast' = LegacyDid("change", nFrames + 1, "", NoResult, "", FALSE)
       ELSE /\ llast' = LegacyDid("change", 0, "", NoResult, "alert", FALSE)
            /\ UNCHANGED <<legacyPreview, nFrames, framePc, reqSource>>
    /\ UNCHANGED <<legacyInterval, legacyCanvas, saves, saveFailed>>

\* img.onload up to its fetch('/detect_frame'), or img.onerror (alert,
\* closeUpload).
LegacyImageLoaded(c, decoded) ==
    /\ framePc[c] = "loading"
    /\ IF decoded
       THEN /\ framePc' = [framePc EXCEPT ![c] = "detecting"]
            /\ llast' = LegacyDid("load", c, "", NoResult, "", FALSE)
            /\ UNCHANGED legacyPreview
       ELSE /\ framePc' = [framePc EXCEPT ![c] = "done"]
            /\ legacyPreview' = "none"
            /\ llast' = LegacyDid("load", c, "", NoResult, "alert", FALSE)
    /\ UNCHANGED <<legacyInterval, legacyCanvas, nFrames, reqSource, saves,
                   saveFailed>>

\* img.onload from the reply of /detect_frame on: a failed request or a
\* non-2xx reply is thrown to the catch (alert, closeUpload); a 2xx reply is
\* drawn on the preview and, with detections, saveAssessment sends its
\* request.
LegacyUploadDetectDone(c, outcome, result) ==
    /\ framePc[c] = "detecting"
    /\ reqSource[c] = "upload"
    /\ IF outcome # "ok"
       THEN /\ framePc' = [framePc EXCEPT ![c] = "done"]
            /\ legacyPreview' = "none"
            /\ llast' = LegacyDid("detect", c, outcome, NoResult, "alert", FALSE)
            /\ UNCHANGED saves
       ELSE IF Renders(outcome, result)
       THEN /\ saves' = [saves EXCEPT ![c] = @ + 1]
            /\ framePc' = [framePc EXCEPT ![c] = "saving"]
            /\ llast' = [LegacyDid("detect", c, outcome, result, "", FALSE)
                            EXCEPT !.payload = SavePayload(result, "upload")]
            /\ UNCHANGED legacyPreview
       ELSE /\ framePc' = [framePc EXCEPT ![c] = "done"]
            /\ llast' = LegacyDid("detect", c, outcome, NoResult, "", FALSE)
            /\ UNCHANGED <<saves, legacyPreview>>
    /\ UNCHANGED <<legacyInterval, legacyCanvas, nFrames, reqSource,
                   saveFailed>>

\* Whether the promise of saveAssessment rejects: its fetch, its test of
\* response.ok and its response.text() all sit in its try block.
SaveRaises(outcome) == FALSE

\* What saveAssessment logs.
SaveLog(outcome) ==
    CASE outcome = "ok" -> ""
      [] outcome = "non2xx" -> "Failed to save assessment"
      [] OTHER -> "Error saving assessment"

\* SaveAssessmentDone where a failed save clears the canvas and the interval.
SaveAssessmentDoneRollsBack(c, outcome) ==
    /\ framePc[c] = "saving"
    /\ framePc' = [framePc EXCEPT ![c] = "done"]
    /\ saveFailed' = (saveFailed \/ outcome # "ok")
    /\ llast' = LegacyDid("save", c, outcome, NoResult, SaveLog(outcome), FALSE)
    /\ legacyCanvas' = IF outcome = "ok" THEN legacyCanvas ELSE <<>>
    /\ legacyInterval' = (legacyInterval /\ outcome = "ok")
    /\ UNCHANGED <<nFrames, reqSource, saves, legacyPreview>>

\* saveAssessment from the reply of /save_assessment on, and the end of the
\* toBlob callback that awaited it.
SaveAssessmentDone(c, outcome) ==
    /\ framePc[c] = "saving"
    /\ framePc' = [framePc EXCEPT ![c] = "done"]
    /\ saveFailed' = (saveFailed \/ outcome # "ok")
    /\ llast' = LegacyDid("save", c, outcome, NoResult,
                          IF SaveRaises(outcome) THEN "Error sending frame"
                          ELSE SaveLog(outcome),
                          SaveRaises(outcome))
    /\ UNCHANGED <<legacyInterval, legacyCanvas, nFrames, reqSource, saves,
                   legacyPreview>>

----------------------------------------------------------------------------
(***************************************************************************)
(* The error events of the detection path: the detection_error message of  *)
(* the WebSocket revision.  (The failed /detect_frame and /save_assessment  *)
(* requests of the first revision are DetectFrameDone and                    *)
(* SaveAssessmentDone.)                                                     *)
(***************************************************************************)

\* DetectionError where the handler stops the sampler.
DetectionErrorStopsSampler(s) ==
    /\ sockState[s] = "connected"
    /\ timers' = ClearInterval(detectionInterval)
    /\ detectionInterval' = 0
    /\ cameraStarted' = FALSE
    /\ last' = Did("detection_error", s, 0, FALSE, TRUE)
    /\ UNCHANGED <<videoStream, socket, sockState, gum, trackLive, videoSrc,
                   videoPhase, readyState, scanImage, scanTitle,
                   cameraContainer, canvasDisplay, opens, closedUpTo,
                   afterClose, dropState>>

\* socket.on('detection_error', (data) => ...): logged
DetectionError(s) ==
    /\ sockState[s] = "connected"
    /\ last' = Did("detection_error", s, 0, FALSE, TRUE)
    /\ UNCHANGED <<videoStream, detectionInterval, cameraStarted, socket,
                   sockState, gum, trackLive, videoSrc, videoPhase, readyState,
                   timers, scanImage, scanTitle, cameraContainer,
                   canvasDisplay, opens, closedUpTo, afterClose, dropState>>

----------------------------------------------------------------------------
(***************************************************************************)
(* Ticks and detection_results messages on one canvas: each tick that      *)
(* sends a frame redraws the bare video frame; the server answers each      *)
(* frame once, the answers arrive in any order, and the handler draws each  *)
(* as it arrives.                                                           *)
(***************************************************************************)

\* Frames a run sends.
MaxSent == 2

Sent == 1..MaxSent

VARIABLES
    nSent,              \* frames sent so far
    unanswered,         \* the frames whose answer has not arrived
    inboxFrames,        \* the frame each message of inbox answers
    shownFrame,         \* the frame the last handled message answered
    newestShown         \* the newest frame whose answer was handled

raceVars == <<nSent, unanswered, inboxFrames, shownFrame, newestShown>>

\* The answers of the server: no list, an empty list, a detection with
\* box_relative, a detection with box only.
RaceResults ==
    {[hasList |-> FALSE, detections |-> <<>>],
     [hasList |-> TRUE, detections |-> <<>>],
     [hasList |-> TRUE,
      detections |-> <<[label |-> "Ripe", score |-> LabelThreshold + 1,
                        hasRel |-> TRUE, rel |-> <<0, 0, RelDen, RelDen>>,
                        box |-> <<0, 0, 1, 1>>]>>],
     [hasList |-> TRUE,
      detections |-> <<[label |-> "Ripe", score |-> LabelThreshold + 1,
                        hasRel |-> FALSE, rel |-> <<>>,
                        box |-> <<0, 0, 1, 1>>]>>]}

RaceInit ==
    /\ nSent = 0
    /\ unanswered = {}
    /\ inboxFrames = <<>>
    /\ shownFrame = 0
    /\ newestShown = 0

\* The canvas has a size and is blank; no message is on its way.
RaceDrawInit ==
    /\ canvasW \in 1..MaxDim
    /\ canvasH \in 1..MaxDim
    /\ overlay = <<>>
    /\ inbox = <<>>
    /\ shown = NoResult
    /\ prev = NoPrev
    /\ dlast = [op |-> "init", zero |-> FALSE, hadBoxes |-> FALSE]

\* SendFrameAndRedraw that leaves the canvas as it is.
SendFrameNoRedraw ==
    /\ nSent < MaxSent
    /\ nSent' = nSent + 1
    /\ unanswered' = unanswered \cup {nSent + 1}
    /\ overlay' = overlay
    /\ dlast' = [op |-> "tick", zero |-> FALSE, hadBoxes |-> HasBoxes(overlay)]
    /\ UNCHANGED <<canvasW, canvasH, inbox, shown, prev, inboxFrames,
                   shownFrame, newestShown>>

\* captureFrameAndSend() when it sends: socket.emit('detect_video_frame'),
\* ctx.clearRect, ctx.drawImage(video).
SendFrameAndRedraw ==
    /\ nSent < MaxSent
    /\ nSent' = nSent + 1
    /\ unanswered' = unanswered \cup {nSent + 1}
    /\ overlay' = BareFrame(canvasW, canvasH)
    /\ dlast' = [op |-> "tick", zero |-> FALSE, hadBoxes |-> HasBoxes(overlay)]
    /\ UNCHANGED <<canvasW, canvasH, inbox, shown, prev, inboxFrames,
                   shownFrame, newestShown>>

\* The answer to frame f arrives: the detection_results message is queued
\* for its handler.
ResultArrives(f, r) ==
    /\ f \in unanswered
    /\ unanswered' = unanswered \ {f}
    /\ inbox' = Append(inbox, r)
    /\ inboxFrames' = Append(inboxFrames, f)
    /\ UNCHANGED <<canvasW, canvasH, overlay, shown, prev, dlast, nSent,
                   shownFrame, newestShown>>

\* The detection_results handler runs for the message at the head of the
\* queue.
HandleResult ==
    /\ DetectionResults
    /\ inboxFrames' = Tail(inboxFrames)
    /\ shownFrame' = Head(inboxFrames)
    /\ newestShown' = IF Head(inboxFrames) > newestShown THEN Head(inboxFrames)
                      ELSE newestShown
    /\ UNCHANGED <<nSent, unanswered>>

----------------------------------------------------------------------------
(***************************************************************************)
(* The statistics page (src/unnamed/part_000): loadData fetches the         *)
(* assessment history, displayData makes a card per record,                 *)
(* updateStatistics shows the counts, and the filter buttons show and hide  *)
(* cards.  A record's timestamp is kept as new Date(item.timestamp)         *)
(* .getTime(), in milliseconds.                                             *)
(***************************************************************************)

\* Records of a history whose timestamps differ.
MaxRecords == 5

\* Records of a history whose labels differ.
MaxCards == 3

\* const TIME_THRESHOLD = 5000
TIME_THRESHOLD == 5000

VARIABLES
    history,            \* what GET /get_assessment_data returns
    dataPc,             \* loadData: loading, loaded, failed
    fetches,            \* GET /get_assessment_data requests sent
    cards,              \* the .data-item cards of the grid: status and display
    stats,              \* the numbers the statistics boxes show
    scanSessions,       \* const scanSessions of updateStatistics
    flast               \* the handler of the page that ran last

dataVars == <<history, dataPc, fetches, cards, stats, scanSessions, flast>>

\* The timestamps of the records of a history.
Times == {0, 1000, 2000, 5000, 8000, 8500, 14000}

\* The labels a record is stored with: the detector's class names and the
\* phrases getStatusClass knows.
Assessments ==
    {"Ripe", "Unripe", "Rotten", "Ready for harvesting",
     "Not ready for harvesting"}

\* Histories in any order: records of different timestamps, or records of
\* different labels.
Histories ==
    UNION {{[i \in 1..n |-> [timestamp |-> t[i], assessment |-> "Ripe"]] :
              t \in {u \in [1..n -> Times] :
                       \A i, j \in 1..n : u[i] = u[j] => i = j}} :
           n \in 0..MaxRecords}
    \cup UNION {{[i \in 1..n |-> [timestamp |-> 0, assessment |-> a[i]]] :
                   a \in [1..n -> Assessments]} : n \in 1..MaxCards}

\* The data-filter values of the filter buttons.
Filters == {"all", "ready", "not-ready", "rotten", "unknown"}

\* The boxes before updateStatistics ran.
NoStats ==
    [total |-> 0, ready |-> 0, notReady |-> 0, rotten |-> 0, sessions |-> 0,
     avgNaN |-> FALSE, avgTenths |-> 0, shown |-> FALSE]

DataInit ==
    /\ history \in Histories
    /\ dataPc = "loading"
    /\ fetches = 1
    /\ cards = <<>>
    /\ stats = NoStats
    /\ scanSessions = <<>>
    /\ flast = [op |-> "init", filter |-> "", outcome |-> ""]

\* The page with no history to come.
DataIdleInit ==
    /\ history = <<>>
    /\ dataPc = "loading"
    /\ fetches = 1
    /\ cards = <<>>
    /\ stats = NoStats
    /\ scanSessions = <<>>
    /\ flast = [op |-> "init", filter |-> "", outcome |-> ""]

\* assessment.toLowerCase()
ToLowerCase(assessment) ==
    CASE assessment = "Ripe" -> "ripe"
      [] assessment = "Unripe" -> "unripe"
      [] assessment = "Rotten" -> "rotten"
      [] assessment = "Ready for harvesting" -> "ready for harvesting"
      [] assessment = "Not ready for harvesting" -> "not ready for harvesting"
      [] OTHER -> assessment

\* getStatusClass(assessment)
GetStatusClass(assessment) ==
    CASE ToLowerCase(assessment) = "ready for harvesting" -> "ready"
      [] ToLowerCase(assessment) = "not ready for harvesting" -> "not-ready"
      [] ToLowerCase(assessment) = "rotten" -> "rotten"
      [] OTHER -> "unknown"

\* One step of the sort: item goes behind the records that are not later
\* than it (Array.prototype.sort is stable).
RECURSIVE InsertByTimestamp(_, _)
InsertByTimestamp(item, sorted) ==
    IF sorted = <<>> THEN <<item>>
    ELSE IF Head(sorted).timestamp - item.timestamp > 0
    THEN <<item>> \o sorted
    ELSE <<Head(sorted)>> \o InsertByTimestamp(item, Tail(sorted))

RECURSIVE SortFrom(_, _)
SortFrom(rest, sorted) ==
    IF rest = <<>> THEN sorted
    ELSE SortFrom(Tail(rest), InsertByTimestamp(Head(rest), sorted))

\* [...data].sort((a, b) => new Date(a.timestamp) - new Date(b.timestamp))
SortByTimestamp(data) == SortFrom(data, <<>>)

\* let currentSession = null
NullSession == -1

\* StartsNewSession that opens a session for the first record only.
StartsNewSessionOnlyFirst(currentSession, sessionStartTime, timestamp) ==
    currentSession = NullSession

\* !currentSession || timestamp - sessionStartTime > TIME_THRESHOLD
StartsNewSession(currentSession, sessionStartTime, timestamp) ==
    \/ currentSession = NullSession
    \/ timestamp - sessionStartTime > TIME_THRESHOLD

\* sessions[key] = value, on the object sessions
Put(sessions, key, value) ==
    [k \in DOMAIN sessions \cup {key} |->
        IF k = key THEN value ELSE sessions[k]]

\* The forEach of groupByScanSession over the sorted records that are left.
RECURSIVE GroupFrom(_, _, _, _)
GroupFrom(rest, sessions, currentSession, sessionStartTime) ==
    IF rest = <<>> THEN sessions
    ELSE LET item == Head(rest)
             timestamp == item.timestamp
             fresh == StartsNewSession(currentSession, sessionStartTime,
                                       timestamp)
             current == IF fresh THEN timestamp ELSE currentSession
             start == IF fresh THEN timestamp ELSE sessionStartTime
             opened == IF fresh THEN Put(sessions, current, <<>>) ELSE sessions
         IN  GroupFrom(Tail(rest),
                       Put(opened, current, Append(opened[current], item)),
                       current, start)

\* groupByScanSession(data): the sessions by the timestamp of their first
\* record.
GroupByScanSession(data) ==
    GroupFrom(SortByTimestamp(data), <<>>, NullSession, NullSession)

RECURSIVE CountStatus(_, _)
\* counts[status] || 0 of updateStatistics
CountStatus(data, status) ==
    IF data = <<>> THEN 0
    ELSE (IF GetStatusClass(Head(data).assessment) = status THEN 1 ELSE 0)
         + CountStatus(Tail(data), status)

\* (data.length / totalScanSessions).toFixed(1), in tenths; 0 / 0 is NaN.
AvgIsNaN(n, k) == k = 0

AvgTenths(n, k) == IF k = 0 THEN 0 ELSE (20 * n + k) \div (2 * k)

\* What updateStatistics(data) shows.
Statistics(data, sessions) ==
    [total |-> Len(data),
     ready |-> CountStatus(data, "ready"),
     notReady |-> CountStatus(data, "not-ready"),
     rotten |-> CountStatus(data, "rotten"),
     sessions |-> Cardinality(DOMAIN sessions),
     avgNaN |-> AvgIsNaN(Len(data), Cardinality(DOMAIN sessions)),
     avgTenths |-> AvgTenths(Len(data), Cardinality(DOMAIN sessions)),
     shown |-> TRUE]

\* displayData(data): one card per record, shown.
DisplayData(data) ==
    [i \in 1..Len(data) |->
        [status |-> GetStatusClass(data[i].assessment), display |-> "block"]]

\* loadData() from the reply of GET /get_assessment_data on.
LoadDataDone(outcome) ==
    /\ dataPc = "loading"
    /\ IF outcome = "ok"
       THEN /\ dataPc' = "loaded"
            /\ cards' = DisplayData(history)
            /\ scanSessions' = GroupByScanSession(history)
            /\ stats' = Statistics(history, GroupByScanSession(history))
       ELSE /\ dataPc' = "failed"
            /\ UNCHANGED <<cards, scanSessions, stats>>
    /\ flast' = [op |-> "load", filter |-> "", outcome |-> outcome]
    /\ UNCHANGED <<history, fetches>>

\* FilterData without the test for 'all'.
FilterDataNoAll(filter) ==
    [i \in 1..Len(cards) |->
        [cards[i] EXCEPT !.display = IF cards[i].status = filter
                                     THEN "block" ELSE "none"]]

\* filterData(filter)
FilterData(filter) ==
    [i \in 1..Len(cards) |->
        [cards[i] EXCEPT !.display = IF filter = "all" \/ cards[i].status = filter
                                     THEN "block" ELSE "none"]]

\* The click handler of a filter button.
FilterClick(filter) ==
    /\ cards' = FilterData(filter)
    /\ flast' = [op |-> "filter", filter |-> filter, outcome |-> ""]
    /\ UNCHANGED <<history, dataPc, fetches, stats, scanSessions>>

----------------------------------------------------------------------------
(***************************************************************************)
(* The specifications.  Each runs one part of the page and leaves the       *)
(* other parts as they start.                                               *)
(***************************************************************************)

\* The renderer before any message: nothing to deliver.
DrawIdleInit ==
    /\ canvasW = 1
    /\ canvasH = 1
    /\ overlay = <<>>
    /\ inbox = <<>>
    /\ shown = NoResult
    /\ prev = NoPrev
    /\ dlast = [op |-> "init", zero |-> FALSE, hadBoxes |-> FALSE]

CameraOnly ==
    UNCHANGED drawVars /\ UNCHANGED upVars /\ UNCHANGED effects
    /\ UNCHANGED legacyVars /\ UNCHANGED raceVars
    /\ UNCHANGED dataVars

RendererOnly ==
    UNCHANGED vars /\ UNCHANGED upVars /\ UNCHANGED effects
    /\ UNCHANGED legacyVars /\ UNCHANGED raceVars
    /\ UNCHANGED dataVars

UploadOnly ==
    UNCHANGED vars /\ UNCHANGED drawVars /\ UNCHANGED effects
    /\ UNCHANGED legacyVars /\ UNCHANGED raceVars
    /\ UNCHANGED dataVars

OrderOnly ==
    UNCHANGED drawVars /\ UNCHANGED upVars /\ UNCHANGED legacyVars
    /\ UNCHANGED raceVars
    /\ UNCHANGED dataVars

LegacyOnly ==
    UNCHANGED vars /\ UNCHANGED drawVars /\ UNCHANGED upVars
    /\ UNCHANGED effects /\ UNCHANGED raceVars
    /\ UNCHANGED dataVars

RaceOnly ==
    UNCHANGED vars /\ UNCHANGED upVars /\ UNCHANGED effects
    /\ UNCHANGED legacyVars
    /\ UNCHANGED dataVars

DataOnly ==
    UNCHANGED vars /\ UNCHANGED drawVars /\ UNCHANGED upVars
    /\ UNCHANGED effects /\ UNCHANGED legacyVars /\ UNCHANGED raceVars

Next ==
    \/ OpenCamera /\ CameraOnly
    \/ CloseCamera /\ CameraOnly
    \/ \E s \in Sessions : SocketConnect(s) /\ CameraOnly
    \/ \E s \in Sessions : SocketDisconnect(s) /\ CameraOnly
    \/ \E s \in Sessions : GumResolve(s) /\ CameraOnly
    \/ \E s \in Sessions : GumReject(s) /\ CameraOnly
    \/ LoadedMetadata /\ CameraOnly
    \/ PlayResolve /\ CameraOnly
    \/ PlayReject /\ CameraOnly
    \/ VideoData /\ CameraOnly
    \/ \E t \in Sessions : CaptureFrameAndSend(t) /\ CameraOnly

\* The page before any call, with no message to come.
CameraInit == Init /\ DrawIdleInit /\ UploadInit /\ OrderInit /\ LegacyInit
    /\ RaceInit /\ DataIdleInit

\* The camera session.
Spec == CameraInit /\ [][Next]_vars

DrawNext ==
    \/ DetectionResults /\ RendererOnly
    \/ SizeCanvas /\ RendererOnly

\* The page before any call, with messages to come.
RendererInit == Init /\ DrawInit /\ UploadInit /\ OrderInit /\ LegacyInit
    /\ RaceInit /\ DataIdleInit

\* The renderer.
SpecDraw == RendererInit /\ [][DrawNext]_drawVars

UploadNext ==
    \/ \E f \in Files : UploadChange(f) /\ UploadOnly
    \/ CloseUpload /\ UploadOnly
    \/ \E u \in Uploads : ImageError(u) /\ UploadOnly
    \/ \E u \in Uploads : ImageLoad(u) /\ UploadOnly
    \/ \E u \in Uploads, o \in Outcomes : FetchDone(u, o) /\ UploadOnly

\* The page before any call, with no message to come.
UploadPageInit ==
    Init /\ DrawIdleInit /\ UploadInit /\ OrderInit /\ LegacyInit
    /\ RaceInit /\ DataIdleInit

\* The static-image pipeline.
SpecUpload == UploadPageInit /\ [][UploadNext]_upVars

OrderNext ==
    \/ OpenCameraInOrder /\ OrderOnly
    \/ CloseCameraInOrder /\ OrderOnly
    \/ \E s \in Sessions : SocketConnect(s) /\ UNCHANGED effects /\ OrderOnly
    \/ \E s \in Sessions : SocketDisconnect(s) /\ UNCHANGED effects /\ OrderOnly
    \/ \E s \in Sessions : GumResolve(s) /\ UNCHANGED effects /\ OrderOnly
    \/ \E s \in Sessions : GumReject(s) /\ UNCHANGED effects /\ OrderOnly

\* The page before any call, with no message to come.
OrderPageInit ==
    Init /\ DrawIdleInit /\ UploadInit /\ OrderInit /\ LegacyInit
    /\ RaceInit /\ DataIdleInit

\* openCamera() and closeCamera() with the order of their side effects, and
\* the events that decide which statements closeCamera() runs.
SpecOrder == OrderPageInit /\ [][OrderNext]_<<vars, effects>>

LegacyNext ==
    \/ LegacyStartRealTimeDetection /\ LegacyOnly
    \/ LegacyCloseCamera /\ LegacyOnly
    \/ \E enoughData \in BOOLEAN : CaptureFrame(enoughData) /\ LegacyOnly
    \/ \E c \in Frames : ToBlobDone(c) /\ LegacyOnly
    \/ \E c \in Frames, o \in DetectOutcomes, r \in LegacyResults :
          DetectFrameDone(c, o, r) /\ LegacyOnly
    \/ \E f \in Files : LegacyUploadChange(f) /\ LegacyOnly
    \/ \E c \in Frames, decoded \in BOOLEAN :
          LegacyImageLoaded(c, decoded) /\ LegacyOnly
    \/ \E c \in Frames, o \in DetectOutcomes, r \in LegacyResults :
          LegacyUploadDetectDone(c, o, r) /\ LegacyOnly
    \/ \E c \in Frames, o \in SaveOutcomes :
          SaveAssessmentDone(c, o) /\ LegacyOnly

\* The page before any call, with no message to come.
LegacyPageInit ==
    Init /\ DrawIdleInit /\ UploadInit /\ OrderInit /\ LegacyInit
    /\ RaceInit /\ DataIdleInit

\* The request/response sampler of the first revision.
SpecLegacy == LegacyPageInit /\ [][LegacyNext]_legacyVars

\* A run in which closeCamera() is not called, no connection drops, every
\* camera request is granted and every play() completes.
LiveNext ==
    \/ OpenCamera /\ CameraOnly
    \/ \E s \in Sessions : SocketConnect(s) /\ CameraOnly
    \/ \E s \in Sessions : GumResolve(s) /\ CameraOnly
    \/ LoadedMetadata /\ CameraOnly
    \/ PlayResolve /\ CameraOnly
    \/ VideoData /\ CameraOnly
    \/ \E t \in Sessions : CaptureFrameAndSend(t) /\ CameraOnly

\* The page before any call, with no message to come.
LivePageInit ==
    Init /\ DrawIdleInit /\ UploadInit /\ OrderInit /\ LegacyInit
    /\ RaceInit /\ DataIdleInit

\* Every pending callback runs in the end, and so does the tick of every
\* active interval; whether the user opens the camera again, and whether the
\* video has data, is left open.
LiveFairness ==
    /\ \A s \in Sessions : WF_vars(SocketConnect(s) /\ CameraOnly)
    /\ \A s \in Sessions : WF_vars(GumResolve(s) /\ CameraOnly)
    /\ WF_vars(LoadedMetadata /\ CameraOnly)
    /\ WF_vars(PlayResolve /\ CameraOnly)
    /\ \A t \in Sessions : WF_vars(CaptureFrameAndSend(t) /\ CameraOnly)

\* The camera session left to itself.
SpecLive == LivePageInit /\ [][LiveNext]_vars /\ LiveFairness

RaceNext ==
    \/ SendFrameAndRedraw /\ RaceOnly
    \/ \E f \in Sent, r \in RaceResults : ResultArrives(f, r) /\ RaceOnly
    \/ HandleResult /\ RaceOnly

\* The page with a sized, blank canvas, before any tick.
RacePageInit ==
    Init /\ RaceDrawInit /\ UploadInit /\ OrderInit /\ LegacyInit /\ RaceInit
    /\ DataIdleInit

\* Ticks and detection_results messages on one canvas.
SpecRace == RacePageInit /\ [][RaceNext]_<<drawVars, raceVars>>

DataNext ==
    \/ \E o \in {"ok", "non2xx", "transportError"} : LoadDataDone(o) /\ DataOnly
    \/ \E f \in Filters : FilterClick(f) /\ DataOnly

\* The statistics page once its script has run and loadData has sent its
\* request.
DataPageInit ==
    Init /\ DrawIdleInit /\ UploadInit /\ OrderInit /\ LegacyInit /\ RaceInit
    /\ DataInit

\* The statistics page.
SpecData == DataPageInit /\ [][DataNext]_dataVars

\* The page runs one revision of script.js: the handlers of the WebSocket
\* revision run on a page where the first revision's sampler never ran, and
\* the other way round.
ErrorsNext ==
    \/ LegacyInit /\ OpenCamera /\ CameraOnly
    \/ LegacyInit /\ CloseCamera /\ CameraOnly
    \/ \E s \in Sessions : LegacyInit /\ SocketConnect(s) /\ CameraOnly
    \/ \E s \in Sessions : LegacyInit /\ SocketDisconnect(s) /\ CameraOnly
    \/ \E s \in Sessions : LegacyInit /\ DetectionError(s) /\ CameraOnly
    \/ \E s \in Sessions : LegacyInit /\ GumResolve(s) /\ CameraOnly
    \/ \E s \in Sessions : LegacyInit /\ GumReject(s) /\ CameraOnly
    \/ LegacyInit /\ LoadedMetadata /\ CameraOnly
    \/ LegacyInit /\ PlayResolve /\ CameraOnly
    \/ LegacyInit /\ PlayReject /\ CameraOnly
    \/ LegacyInit /\ VideoData /\ CameraOnly
    \/ \E t \in Sessions : LegacyInit /\ CaptureFrameAndSend(t) /\ CameraOnly
    \/ Init /\ LegacyStartRealTimeDetection /\ LegacyOnly
    \/ Init /\ LegacyCloseCamera /\ LegacyOnly
    \/ \E enoughData \in BOOLEAN : Init /\ CaptureFrame(enoughData) /\ LegacyOnly
    \/ \E c \in Frames : Init /\ ToBlobDone(c) /\ LegacyOnly
    \/ \E c \in Frames, o \in DetectOutcomes, r \in LegacyResults :
          Init /\ DetectFrameDone(c, o, r) /\ LegacyOnly
    \/ \E f \in Files : Init /\ LegacyUploadChange(f) /\ LegacyOnly
    \/ \E c \in Frames, decoded \in BOOLEAN :
          Init /\ LegacyImageLoaded(c, decoded) /\ LegacyOnly
    \/ \E c \in Frames, o \in DetectOutcomes, r \in LegacyResults :
          Init /\ LegacyUploadDetectDone(c, o, r) /\ LegacyOnly
    \/ \E c \in Frames, o \in SaveOutcomes :
          Init /\ SaveAssessmentDone(c, o) /\ LegacyOnly

\* The page before any call, with no message to come.
ErrorsPageInit ==
    Init /\ DrawIdleInit /\ UploadInit /\ OrderInit /\ LegacyInit
    /\ RaceInit /\ DataIdleInit

\* The camera session with its error events, under either revision.
SpecErrors == ErrorsPageInit /\ [][ErrorsNext]_<<vars, legacyVars>>

----------------------------------------------------------------------------
\* The lifecycle state is idle: flag false, every handle null.
AllHandlesNull ==
    /\ ~cameraStarted
    /\ videoStream = 0
    /\ socket = 0
    /\ detectionInterval = 0

\* C1: after closeCamera(), called from any reachable state, no error was
\* raised, cameraStarted is false and videoStream, socket and
\* detectionInterval are all null.
C1_CloseLeavesAllNull ==
    last.op = "close" => ~last.threw /\ AllHandlesNull

\* C2: after closeCamera() and until the next openCamera(), no stream the
\* page acquired has a live track.
C2_NoLiveTrackAfterClose ==
    afterClose => \A s \in Sessions : ~trackLive[s]

\* C3: after closeCamera() and until the next openCamera(), no sampling timer
\* is active and no tick emits a detect_video_frame message.
C3_NoSamplingAfterClose ==
    afterClose => timers = {} /\ ~(last.op = "tick" /\ last.sent > 0)

\* The step is a callback of a session that closeCamera() closed, run after
\* a later openCamera() began a new session.
StaleCallbackStep ==
    /\ opens > closedUpTo
    /\ last'.sess \in 1..closedUpTo
    /\ last'.op \in {"connect", "disconnect", "gumResolve", "gumReject",
                     "metadata", "playResolve", "playReject", "tick"}

\* C4: once closeCamera() was followed by openCamera(), no callback of the
\* closed session changes cameraStarted, the video source and canvas
\* visibility, or the timer of the new session.
C4_NoStaleCallbackEffect ==
    [][StaleCallbackStep =>
          /\ cameraStarted' = cameraStarted
          /\ videoStream' = videoStream
          /\ canvasDisplay' = canvasDisplay
          /\ (detectionInterval > closedUpTo =>
                 /\ detectionInterval' = detectionInterval
                 /\ timers' = timers)]_vars

\* C5: the sampling timer is started only when the video has its metadata
\* and the streaming connection is live.
C5_TimerStartedOnlyWhenConnected ==
    last.op = "playResolve" =>
        readyState >= HAVE_METADATA /\ SocketConnected

\* C6: a tick emits exactly one detect_video_frame message if and only if
\* the video has enough data, the socket exists and is connected and
\* cameraStarted is true; otherwise it emits none.
C6_TickSendsIffReady ==
    [][last'.op = "tick" =>
          last'.sent = IF /\ readyState = HAVE_ENOUGH_DATA
                          /\ socket # 0
                          /\ sockState[socket] = "connected"
                          /\ cameraStarted
                       THEN 1 ELSE 0]_vars

\* A tick has just sent a frame.
C6_Witness ==
    last.op = "tick" /\ last.sent = 1 /\ cameraStarted /\ timers # {}

\* C7: once cameraStarted became false under an active timer, the next tick
\* clears the timer and nulls detectionInterval, and from then until
\* openCamera() is called again no timer is active (no tick, no frame).
C7_SelfCancelIsFinal ==
    /\ (dropState = "dropped" /\ last.op = "tick" => detectionInterval = 0)
    /\ (dropState = "cancelled" => timers = {} /\ detectionInterval = 0)

\* The video has no data yet or the connection is not ready.
NotReady ==
    \/ readyState # HAVE_ENOUGH_DATA
    \/ socket = 0
    \/ sockState[socket] # "connected"

\* A step that changes no lifecycle state and no timer.
LifecycleUnchanged ==
    UNCHANGED <<videoStream, detectionInterval, cameraStarted, socket,
                sockState, timers>>

\* C8 as stated: a tick with no video data or no ready connection sends
\* nothing, raises nothing, changes no lifecycle state and leaves the timer
\* running.
C8_NotReadyTickIsNoOp ==
    [][last'.op = "tick" /\ NotReady =>
          /\ last'.sent = 0
          /\ ~last'.threw
          /\ LifecycleUnchanged]_vars

\* C8 as amended: such a tick sends nothing and raises nothing; while
\* cameraStarted is true it changes no lifecycle state and leaves the timer
\* running; when cameraStarted is false it clears the interval
\* detectionInterval names and nulls detectionInterval, nothing else.
C8_NotReadyTickAmended ==
    [][last'.op = "tick" /\ NotReady =>
          /\ last'.sent = 0
          /\ ~last'.threw
          /\ (cameraStarted => LifecycleUnchanged)
          /\ (~cameraStarted =>
                 /\ detectionInterval' = 0
                 /\ timers' = timers \ {detectionInterval}
                 /\ UNCHANGED <<videoStream, cameraStarted, socket,
                                sockState>>)]_vars

\* A tick found the session started but the video or the connection not
\* ready, and the timer still runs.
C8_Witness ==
    /\ last.op = "tick"
    /\ last.sent = 0
    /\ cameraStarted
    /\ NotReady
    /\ detectionInterval # 0
    /\ detectionInterval \in timers

\* C9: after getUserMedia rejected for the latest openCamera(), the socket
\* that call opened is not live, cameraStarted is false and no sampling
\* timer is active.
C9_RejectReturnsToIdle ==
    \A s \in Sessions :
        gum[s] = "rejected" /\ opens = s =>
            /\ sockState[s] \notin {"connecting", "connected"}
            /\ ~cameraStarted
            /\ timers = {}

\* C10: the rejection handler leaves the placeholder image and title
\* visible, has alerted and logged, and lets no exception escape.
C10_RejectRestoresPlaceholder ==
    last.op = "gumReject" =>
        /\ scanImage = "block"
        /\ scanTitle = "block"
        /\ last.alert
        /\ last.log
        /\ ~last.threw

\* The camera was refused while the session was open (the placeholder had
\* been hidden by openCamera()).
C10_Witness ==
    /\ last.op = "gumReject"
    /\ ~afterClose
    /\ cameraContainer = "block"
    /\ scanImage = "block"

----------------------------------------------------------------------------
\* The renderer has just drawn a message that carries detections.
Rendered == dlast.op = "results" /\ ~dlast.zero

\* The rectangles and the labels on the canvas, in drawing order.
IsRect(op) == op.kind = "rect"
IsText(op) == op.kind = "text"
Rects(canvas) == SelectSeq(canvas, IsRect)
Texts(canvas) == SelectSeq(canvas, IsText)

\* C12: drawDetections draws a label for a detection if and only if its
\* score is above 0.1, whichever coordinate form the detection carries: the
\* labels on the canvas are as many as the detections scored above 0.1.
C12_LabelIffScoreAboveThreshold ==
    Rendered =>
        Len(Texts(overlay)) =
            Cardinality({i \in 1..Len(shown.detections) :
                            shown.detections[i].score > LabelThreshold})

\* C13: the rectangle of a detection that has box_relative is
\* (x1*W, y1*H, x2*W, y2*H) for the canvas size W, H at draw time; the
\* absolute box is used, unchanged, only for a detection without
\* box_relative.
C13_RelativePreferred ==
    Rendered =>
        /\ Len(Rects(overlay)) = Len(shown.detections)
        /\ \A i \in 1..Len(shown.detections) :
              LET d == shown.detections[i]
                  r == Rects(overlay)[i]
              IN  /\ (d.hasRel /\ Len(d.rel) = 4 =>
                         /\ r.src = "relative"
                         /\ r.x = d.rel[1] * canvasW
                         /\ r.y = d.rel[2] * canvasH
                         /\ r.x + r.w = d.rel[3] * canvasW
                         /\ r.y + r.h = d.rel[4] * canvasH)
                  /\ (r.src = "absolute" =>
                         /\ ~(d.hasRel /\ Len(d.rel) = 4)
                         /\ r.x = Px(d.box[1])
                         /\ r.y = Px(d.box[2])
                         /\ r.x + r.w = Px(d.box[3])
                         /\ r.y + r.h = Px(d.box[4]))

\* A message with a relative and an absolute detection was drawn on a
\* canvas that is not square.
C13_Witness ==
    /\ Rendered
    /\ canvasW # canvasH
    /\ \E i, j \in 1..Len(shown.detections) :
          /\ shown.detections[i].hasRel
          /\ ~shown.detections[j].hasRel
          /\ Rects(overlay)[i].src = "relative"
          /\ Rects(overlay)[j].src = "absolute"

\* Every detection of the message carries box_relative (a rectangle).
AllRelative(result) ==
    /\ result.detections # <<>>
    /\ \A i \in 1..Len(result.detections) :
          result.detections[i].hasRel /\ Len(result.detections[i].rel) = 4

\* The message drawn before the canvas doubled has been drawn again.
RedrawnDoubled ==
    /\ Rendered
    /\ prev # NoPrev
    /\ shown = prev.result
    /\ canvasW = 2 * prev.w
    /\ canvasH = 2 * prev.h

\* C14: a result whose detections carry box_relative, drawn at (W,H) and
\* then at (2W,2H), gives rectangles whose x, y, width and height are each
\* exactly double.
C14_DoublesWithCanvas ==
    RedrawnDoubled /\ AllRelative(shown) =>
        /\ Len(Rects(overlay)) = Len(Rects(prev.overlay))
        /\ \A i \in 1..Len(Rects(overlay)) :
              LET a == Rects(prev.overlay)[i]
                  b == Rects(overlay)[i]
              IN  /\ b.x = 2 * a.x
                  /\ b.y = 2 * a.y
                  /\ b.w = 2 * a.w
                  /\ b.h = 2 * a.h

\* A relative result was drawn at both sizes, with a box away from the
\* canvas origin.
C14_Witness ==
    /\ RedrawnDoubled
    /\ AllRelative(shown)
    /\ \E i \in 1..Len(Rects(overlay)) : Rects(overlay)[i].x > 0

\* C15: after a detection_results message with zero detections (empty or
\* missing list) the canvas shows the bare video frame and no box.
C15_ZeroDetectionsClear ==
    dlast.op = "results" /\ dlast.zero =>
        /\ overlay = BareFrame(canvasW, canvasH)
        /\ ~HasBoxes(overlay)

\* A message with zero detections arrived while the canvas showed boxes.
C15_Witness ==
    /\ dlast.op = "results"
    /\ dlast.zero
    /\ dlast.hadBoxes
    /\ ~HasBoxes(overlay)

----------------------------------------------------------------------------
\* C16: picking a file whose MIME type does not start with 'image/' shows
\* an error message, sends no request, creates no object URL and leaves
\* the preview canvas and the preview container as they were.
C16_NonImageRejected ==
    [][ulast'.op = "change" /\ ulast'.file.type[1] # "image" =>
          /\ ulast'.alert
          /\ requests' = requests
          /\ urlState' = urlState
          /\ upPc' = upPc
          /\ uploadCanvas' = uploadCanvas
          /\ uploadPreview' = uploadPreview]_upVars

\* A text file was picked while the preview of an earlier image was open.
C16_Witness ==
    /\ ulast.op = "change"
    /\ ulast.file.name = "notes.txt"
    /\ ulast.alert
    /\ uploadPreview = "block"
    /\ uploadCanvas # "blank"

\* C17: when the handling of an upload completes (success, detection
\* failure or image-decode failure) the file input's value is empty.
C17_InputResetOnEveryPath ==
    ulast.op \in {"fetchDone", "imageError"} => inputValue = ""

\* C18: the object URL of an upload is never revoked twice, is live while
\* the upload is handled, and has been revoked exactly once when the
\* handling has completed, on every path; with every upload completed no
\* object URL is live.
C18_UrlRevokedOnce ==
    \A u \in Uploads :
        /\ revokes[u] <= 1
        /\ (upPc[u] \in {"loading", "fetching"} => urlState[u] = "live")
        /\ (upPc[u] \in {"done", "failed"} =>
               revokes[u] = 1 /\ urlState[u] = "revoked")
        /\ (upPc[u] = "none" => urlState[u] = "none")

\* One upload has succeeded and another has failed.
C18_Witness ==
    \E u, v \in Uploads :
        /\ upPc[u] = "done"
        /\ upPc[v] = "failed"
        /\ revokes[u] = 1
        /\ revokes[v] = 1

\* C19: a detection failure (non-2xx reply, transport error, unparsable
\* reply) alerts, closes the preview, and draws no box for that upload.
C19_DetectionFailureClosesPreview ==
    ulast.op = "fetchDone"
        /\ ulast.outcome \in {"non2xx", "transportError", "unparsable"} =>
            /\ ulast.alert
            /\ uploadPreview = "none"
            /\ upPc[ulast.u] = "failed"
            /\ drew[ulast.u] = "nothing"

\* The server answered an upload with an error status.
C19_Witness ==
    /\ ulast.op = "fetchDone"
    /\ ulast.outcome = "non2xx"
    /\ ulast.alert
    /\ uploadPreview = "none"

----------------------------------------------------------------------------
Has(e) == \E i \in 1..Len(effects) : effects[i] = e

Pos(e) == CHOOSE i \in 1..Len(effects) : effects[i] = e

\* Of two side effects that the function both had, a came before b.
Before(a, b) == (Has(a) /\ Has(b)) => Pos(a) < Pos(b)

\* C11: openCamera() toggles the placeholder and the camera container before
\* it requests the camera, and closeCamera() stops the tracks and releases
\* the stream before it shows the placeholder and hides the container.
C11_SideEffectsOrdered ==
    /\ \A ui \in {"scanImage.none", "scanTitle.none", "cameraContainer.block"} :
          Before(ui, "getUserMedia")
    /\ \A release \in {"tracks.stop", "srcObject.null", "videoStream.null"} :
          \A ui \in {"scanImage.block", "scanTitle.block",
                     "cameraContainer.none"} :
             Before(release, ui)

----------------------------------------------------------------------------
\* C20: a /save_assessment call that fails is only logged: nothing is
\* raised to the caller, the canvas and the interval stay as they were, and
\* the /detect_frame reply of a later frame, with detections, is still drawn.
C20_SaveFailureOnlyLogged ==
    [][/\ (llast'.op = "save" /\ llast'.outcome # "ok") =>
             /\ llast'.log \in {"Failed to save assessment",
                                "Error saving assessment"}
             /\ ~llast'.raised
             /\ legacyCanvas' = legacyCanvas
             /\ legacyInterval' = legacyInterval
       /\ (llast'.op = "detect" /\ saveFailed
               /\ reqSource[llast'.frame] = "camera"
               /\ Renders(llast'.outcome, llast'.result)) =>
             legacyCanvas' = LegacyDrawDetections(llast'.result)
      ]_legacyVars

\* After a failed save, under an interval still active, the reply of a
\* later frame has been drawn.
C20_Witness ==
    /\ llast.op = "detect"
    /\ saveFailed
    /\ framePc[1] = "done"
    /\ llast.frame = 2
    /\ reqSource[1] = "camera"
    /\ reqSource[2] = "camera"
    /\ Renders(llast.outcome, llast.result)
    /\ HasBoxes(legacyCanvas)
    /\ legacyInterval

----------------------------------------------------------------------------
\* The step handles a detection_error message, a /detect_frame request that
\* failed or a /save_assessment request that failed.
ErrorHandled ==
    \/ last' # last /\ last'.op = "detection_error"
    \/ llast' # llast /\ llast'.op = "detect"
          /\ llast'.outcome \in DetectOutcomes \ {"ok"}
    \/ llast' # llast /\ llast'.op = "save"
          /\ llast'.outcome \in SaveOutcomes \ {"ok"}

\* C21: handling a detection_error message, a failed /detect_frame request
\* or a failed /save_assessment request leaves the timer and cameraStarted
\* as they were; a timer is cleared only by closeCamera(), by
\* startRealTimeDetection or by a tick that finds cameraStarted false.
C21_ErrorsLeaveTimer ==
    [][/\ ErrorHandled =>
             /\ timers' = timers
             /\ detectionInterval' = detectionInterval
             /\ cameraStarted' = cameraStarted
             /\ legacyInterval' = legacyInterval
       /\ timers \ timers' # {} =>
             \/ last'.op \in {"close", "playResolve"}
             \/ last'.op = "tick" /\ ~cameraStarted
       /\ (legacyInterval /\ ~legacyInterval') => llast'.op = "close"
      ]_<<vars, legacyVars>>

\* A detection_error message was handled under an active timer of a started
\* session.
C21_Witness ==
    /\ last.op = "detection_error"
    /\ cameraStarted
    /\ detectionInterval # 0
    /\ detectionInterval \in timers

----------------------------------------------------------------------------
\* C28: for every /detect_frame request, at most one /save_assessment
\* request is sent; it is sent exactly when the reply is handled and is a
\* 2xx with at least one detection, and it carries the label and score of
\* the first detection and the source of the request ('camera' for a frame,
\* 'upload' for a file).
C28_OneSavePerResult ==
    [][\A c \in Frames :
          /\ saves'[c] <= 1
          /\ saves'[c] # saves[c] <=>
                /\ llast'.op = "detect"
                /\ llast'.frame = c
                /\ framePc[c] = "detecting"
                /\ llast'.outcome = "ok"
                /\ llast'.result.detections # <<>>
          /\ saves'[c] # saves[c] =>
                /\ llast'.payload.label = llast'.result.detections[1].label
                /\ llast'.payload.score = llast'.result.detections[1].score
                /\ llast'.payload.source = reqSource[c]
                /\ reqSource[c] \in {"camera", "upload"}
      ]_legacyVars

\* A frame and a file were both saved, the last of them from a reply with
\* two detections of different labels.
C28_Witness ==
    /\ llast.op = "detect"
    /\ Len(llast.result.detections) = 2
    /\ llast.payload.label = llast.result.detections[1].label
    /\ saves[llast.frame] = 1
    /\ \E c \in Frames :
          /\ reqSource[c] # reqSource[llast.frame]
          /\ saves[c] = 1

----------------------------------------------------------------------------
\* C29: at most one sampling timer is active, and an active timer is the one
\* detectionInterval names.
C29_OneTimer ==
    /\ Cardinality(timers) <= 1
    /\ timers # {} => timers = {detectionInterval}

\* A second stream started its sampler while the timer of the first was
\* active: the first timer is gone.
C29_Witness ==
    /\ last.op = "playResolve"
    /\ last.sess = 2
    /\ trackLive[1]
    /\ timers = {2}
    /\ detectionInterval = 2

----------------------------------------------------------------------------
\* The sockets the page made that are connecting or connected.
OpenSockets == {s \in Sessions : sockState[s] \in {"connecting", "connected"}}

\* The streams the page acquired whose tracks are live.
LiveStreams == {s \in Sessions : trackLive[s]}

\* C30: at most one socket is open or connecting and at most one acquired
\* stream has live tracks: the ones socket and videoStream name.
C30_OneSocketOneStream ==
    /\ OpenSockets \subseteq {socket}
    /\ LiveStreams \subseteq {videoStream}

----------------------------------------------------------------------------
\* The camera of openCamera() call s was acquired and its socket connected.
SessionReady(s) == gum[s] = "resolved" /\ sockState[s] = "connected"

\* STREAMING: a sampling timer is active on a connected, started session, so
\* that its ticks emit frames while the video has data.
Streaming ==
    /\ detectionInterval # 0
    /\ detectionInterval \in timers
    /\ cameraStarted
    /\ SocketConnected

\* C26: once the camera of an openCamera() call is acquired and its socket is
\* connected, the session reaches STREAMING, whichever of the 'connect'
\* event and the completion of play() came first.
C26_ReachesStreaming ==
    \A s \in Sessions : SessionReady(s) ~> Streaming

----------------------------------------------------------------------------
\* What the last handled event draws on a blank canvas.
LastEventAlone ==
    CASE dlast.op = "tick" -> BareFrame(canvasW, canvasH)
      [] dlast.op = "results" ->
            IF shown.hasList /\ shown.detections # <<>>
            THEN DrawDetections(shown, canvasW, canvasH)
            ELSE BareFrame(canvasW, canvasH)
      [] OTHER -> <<>>

\* C27: after any interleaving of ticks and detection_results messages the
\* canvas holds what the last handled event draws, and nothing of an earlier
\* one; an answer to an older frame handled after the answer to a newer one
\* is drawn like any other.
C27_LastMessageWins ==
    /\ overlay = LastEventAlone
    /\ (dlast.op = "results" /\ shownFrame < newestShown) =>
          overlay = (IF shown.hasList /\ shown.detections # <<>>
                     THEN DrawDetections(shown, canvasW, canvasH)
                     ELSE BareFrame(canvasW, canvasH))

\* The boxes of the answer to frame 1 are on the canvas after the answer to
\* frame 2 was handled.
C27_Witness ==
    /\ dlast.op = "results"
    /\ shownFrame = 1
    /\ newestShown = 2
    /\ HasBoxes(overlay)
    /\ dlast.hadBoxes

----------------------------------------------------------------------------
\* The timestamps of the history.
Stamps == {history[i].timestamp : i \in 1..Len(history)}

\* Two records next to each other in timestamp order.
Adjacent(t, u) ==
    /\ t \in Stamps
    /\ u \in Stamps
    /\ t < u
    /\ ~ \E v \in Stamps : t < v /\ v < u

\* The timestamps of the records of the session that starts at k.
SessionStamps(k) ==
    {scanSessions[k][i].timestamp : i \in 1..Len(scanSessions[k])}

SameSession(t, u) ==
    \E k \in DOMAIN scanSessions : t \in SessionStamps(k) /\ u \in SessionStamps(k)

\* C22: two records next to each other in timestamp order and at most 5000
\* ms apart are in the same session.
C22_CloseRecordsShareSession ==
    dataPc = "loaded" =>
        \A t \in Stamps, u \in Stamps :
           (Adjacent(t, u) /\ u - t <= TIME_THRESHOLD) => SameSession(t, u)

\* C23: two records next to each other in timestamp order and more than
\* 5000 ms apart are in different sessions; the average shown is the number
\* of records over the number of sessions, to one decimal (NaN for no
\* record); timestamps 0, 1000, 2000, 8000, 8500 give the sessions
\* {0, 1000, 2000} and {8000, 8500} and the average 2.5.
C23_FarRecordsSplitSessions ==
    dataPc = "loaded" =>
        /\ \A t \in Stamps, u \in Stamps :
              (Adjacent(t, u) /\ u - t > TIME_THRESHOLD) => ~SameSession(t, u)
        /\ stats.avgNaN <=> stats.sessions = 0
        /\ stats.sessions > 0 =>
              /\ 2 * (10 * stats.total - stats.avgTenths * stats.sessions)
                    < stats.sessions
              /\ 2 * (stats.avgTenths * stats.sessions - 10 * stats.total)
                    <= stats.sessions
        /\ Stamps = {0, 1000, 2000, 8000, 8500} =>
              /\ {SessionStamps(k) : k \in DOMAIN scanSessions}
                    = {{0, 1000, 2000}, {8000, 8500}}
              /\ stats.sessions = 2
              /\ stats.avgTenths = 25

\* The history 2000, 8500, 0, 8000, 1000 was loaded.
C23_Witness ==
    /\ dataPc = "loaded"
    /\ Len(history) = 5
    /\ history[1].timestamp = 2000
    /\ Stamps = {0, 1000, 2000, 8000, 8500}
    /\ stats.shown
    /\ stats.avgTenths = 25

----------------------------------------------------------------------------
\* The number of records of the history stored with a label.
Stored(label) ==
    Cardinality({i \in 1..Len(history) : history[i].assessment = label})

\* C24: the counts shown are the numbers of records stored as Ripe, Unripe
\* and Rotten, and the total is the number of records.
C24_CountsPerLabel ==
    dataPc = "loaded" =>
        /\ stats.ready = Stored("Ripe")
        /\ stats.notReady = Stored("Unripe")
        /\ stats.rotten = Stored("Rotten")
        /\ stats.total = Len(history)

----------------------------------------------------------------------------
\* C25: after filterData(filter) a card is shown exactly when filter is
\* 'all' or is the card's status; the click sends no request, adds and
\* removes no card, changes no status and no statistic; the same filter
\* again changes nothing; 'all' shows every card.
C25_FilterOnlyTogglesCards ==
    [][flast'.op = "filter" =>
          /\ Len(cards') = Len(cards)
          /\ \A i \in 1..Len(cards) :
                /\ cards'[i].status = cards[i].status
                /\ cards'[i].display = "block" <=>
                      (flast'.filter = "all" \/ cards[i].status = flast'.filter)
                /\ flast'.filter = "all" => cards'[i].display = "block"
          /\ fetches' = fetches
          /\ stats' = stats
          /\ scanSessions' = scanSessions
          /\ dataPc' = dataPc
          /\ (flast.op = "filter" /\ flast.filter = flast'.filter) =>
                cards' = cards
      ]_dataVars

\* 'all' was clicked and shows three cards of different statuses.
C25_Witness ==
    /\ flast.op = "filter"
    /\ flast.filter = "all"
    /\ Len(cards) = 3
    /\ cards[1].status = "ready"
    /\ cards[2].status = "unknown"
    /\ cards[3].status = "rotten"
    /\ \A i \in 1..3 : cards[i].display = "block"

====
